---------------------------- MODULE Spec2Model ----------------------------
(***************************************************************************)
(* Model of HackerNewsRanking-Analysis/HNScraperTest.py: the field parsers *)
(* (parse_age, parse_comments), the record extractor (parse_html), the     *)
(* page fetcher (connect_to_base) and the run loop (run_process, __main__).*)
(*                                                                         *)
(* Text is a sequence of one-character strings, so that split, float, int  *)
(* and len are computed and not assumed.  A Python value is a tagged       *)
(* record; a call's outcome is either a returned value or a raised         *)
(* exception.  Floats are exact rationals n/d in lowest terms (binary      *)
(* rounding is not modelled).                                              *)
(***************************************************************************)
EXTENDS Integers, Sequences, FiniteSets, TLC

VARIABLES
    call,                \* parser under test: "parse_age", "parse_comments", "none"
    arg,                 \* its argument (a Python value)
    ret,                 \* its outcome, Pending before the call
    pc,                  \* position of the script
    page,                \* __main__: page
    connection_attempts, \* connect_to_base: connection_attempts
    loads,               \* history: browser.get calls made by the current connect_to_base call
    result,              \* value returned by connect_to_base, PyNone when none is pending
    html,                \* run_process: html (the parsed document)
    x,                   \* parse_html: loop index (0-based, as in the source)
    output_list,         \* parse_html: output_list
    raised,              \* the exception that ended the script, "" if none
    w,                   \* write_to_file: number of rows of output_list written
    sink,                \* the csv file: header row, then the data rows
    sinkPage,            \* history: for each row of sink, the page it came from (0: header)
    attempted,           \* history: pages for which connect_to_base was called
    skipped              \* history: pages for which connect_to_base returned False

vars == <<call, arg, ret, pc, page, connection_attempts, loads, result, html,
          x, output_list, raised, w, sink, sinkPage, attempted, skipped>>

parserVars == <<call, arg, ret>>
runVars == <<pc, page, connection_attempts, loads, result, html, x,
             output_list, raised, w, sink, sinkPage, attempted, skipped>>

(***************************************************************************)
(* Bounds of the model.                                                    *)
(***************************************************************************)
MaxMagnitude == 45      \* age magnitudes 0..MaxMagnitude are tried
MaxItems == 2           \* item nodes per page in the extractor specification
MaxRunItems == 2        \* item nodes per page in the run specification

(***************************************************************************)
(* Python values and call outcomes.                                        *)
(***************************************************************************)
RECURSIVE Gcd(_, _)
Gcd(a, b) == IF b = 0 THEN a ELSE Gcd(b, a % b)

PyNone == [t |-> "None"]
PyStr(s) == [t |-> "str", s |-> s]
PyInt(v) == [t |-> "int", v |-> v]
PyFloat(n, d) == [t |-> "float", n |-> n \div Gcd(n, d), d |-> d \div Gcd(n, d)]

Return(v) == [k |-> "return", v |-> v]
Raise(e) == [k |-> "raise", exc |-> e]
Pending == [k |-> "pending"]

(***************************************************************************)
(* Text helpers.                                                           *)
(***************************************************************************)
Digits == <<"0", "1", "2", "3", "4", "5", "6", "7", "8", "9">>
IsDigit(c) == \E i \in 1..10 : Digits[i] = c
DigitVal(c) == (CHOOSE i \in 1..10 : Digits[i] = c) - 1
AllDigits(s) == \A i \in 1..Len(s) : IsDigit(s[i])

RECURSIVE DigitsVal(_)
DigitsVal(s) ==
    IF s = <<>> THEN 0
    ELSE 10 * DigitsVal(SubSeq(s, 1, Len(s) - 1)) + DigitVal(s[Len(s)])

RECURSIVE Pow10(_)
Pow10(n) == IF n = 0 THEN 1 ELSE 10 * Pow10(n - 1)

RECURSIVE Dec(_)
Dec(n) == IF n < 10 THEN <<Digits[n + 1]>> ELSE Dec(n \div 10) \o <<Digits[(n % 10) + 1]>>

RECURSIVE Repeat(_, _)
Repeat(s, n) == IF n = 0 THEN <<>> ELSE s \o Repeat(s, n - 1)

SP == " "
NBSP == "nbsp"          \* the one character "\xa0"
DOT == "."

\* str.split(sep) for a one-character separator: every occurrence splits,
\* so adjacent separators give empty pieces and "" gives [""].
RECURSIVE split(_, _)
split(s, sep) ==
    IF \A i \in 1..Len(s) : s[i] # sep THEN <<s>>
    ELSE LET i == CHOOSE j \in 1..Len(s) :
                      s[j] = sep /\ \A m \in 1..(j - 1) : s[m] # sep
         IN <<SubSeq(s, 1, i - 1)>> \o split(SubSeq(s, i + 1, Len(s)), sep)

\* float(v).  For text: digits with at most one decimal point and at least
\* one digit.  The texts of this model hold no sign, exponent, underscore,
\* surrounding blank, "inf" or "nan", the other forms float() accepts.
float(v) ==
    IF v.t = "float" THEN Return(v)
    ELSE IF v.t = "int" THEN Return(PyFloat(v.v, 1))
    ELSE IF v.t # "str" THEN Raise("TypeError")
    ELSE LET parts == split(v.s, DOT) IN
         IF Len(parts) = 1 /\ parts[1] # <<>> /\ AllDigits(parts[1])
         THEN Return(PyFloat(DigitsVal(parts[1]), 1))
         ELSE IF Len(parts) = 2 /\ parts[1] \o parts[2] # <<>>
                 /\ AllDigits(parts[1]) /\ AllDigits(parts[2])
         THEN Return(PyFloat(DigitsVal(parts[1] \o parts[2]), Pow10(Len(parts[2]))))
         ELSE Raise("ValueError")

\* int(text): digits only (no decimal point).
int(v) ==
    IF v.t = "int" THEN Return(v)
    ELSE IF v.t # "str" THEN Raise("TypeError")
    ELSE IF v.s # <<>> /\ AllDigits(v.s) THEN Return(PyInt(DigitsVal(v.s)))
    ELSE Raise("ValueError")

(***************************************************************************)
(* Words used by the program and by the inputs.                            *)
(***************************************************************************)
T_NA == <<"N", "A">>
T_days == <<"d", "a", "y", "s">>
T_minutes == <<"m", "i", "n", "u", "t", "e", "s">>
T_hours == <<"h", "o", "u", "r", "s">>
T_ago == <<"a", "g", "o">>
T_abc == <<"a", "b", "c">>
T_today == <<"t", "o", "d", "a", "y">>
T_discuss == <<"d", "i", "s", "c", "u", "s", "s">>
T_comments == <<"c", "o", "m", "m", "e", "n", "t", "s">>
T_fortytwo == <<"f", "o", "r", "t", "y", "-", "t", "w", "o">>
T_points == <<"p", "o", "i", "n", "t", "s">>
T_hide == <<"h", "i", "d", "e">>

(***************************************************************************)
(* parse_age                                                               *)
(***************************************************************************)
parse_age(age) ==
    IF age.t # "str" THEN Raise("AttributeError")
    ELSE
    LET age_set == split(age.s, SP)
        conv == float(PyStr(age_set[1]))
        age_in_hours == IF conv.k = "return" THEN conv.v ELSE PyStr(T_NA)
    IN  IF Len(age_set) < 2 THEN Raise("IndexError")
        ELSE IF age_set[2] = T_days
        THEN IF age_in_hours.t = "str"
             THEN Return(PyStr(Repeat(age_in_hours.s, 24)))
             ELSE Return(PyFloat(age_in_hours.n * 24, age_in_hours.d))
        ELSE IF age_set[2] = T_minutes
        THEN IF age_in_hours.t = "str"
             THEN Raise("TypeError")
             ELSE Return(PyFloat(age_in_hours.n, age_in_hours.d * 60))
        ELSE Return(age_in_hours)

(***************************************************************************)
(* parse_comments                                                          *)
(***************************************************************************)
parse_comments(comment) ==
    LET afterIf == IF comment = PyStr(T_discuss) THEN PyInt(0) ELSE PyNone
        conv == float(comment)
        \* the try statement assigns comments_count on both of its paths,
        \* whatever the if statement assigned before it
        comments_count == IF conv.k = "return" THEN conv.v
                          ELSE IF conv.exc = "ValueError" THEN PyStr(T_NA)
                          ELSE afterIf
    IN  IF conv.k = "raise" /\ conv.exc # "ValueError" THEN conv
        ELSE Return(comments_count)

(***************************************************************************)
(* Specification of the field parsers: one call of parse_age or of         *)
(* parse_comments on an input drawn from the bounded input sets.           *)
(***************************************************************************)
Magnitudes == {Dec(n) : n \in 0..MaxMagnitude}
BadMagnitudes == {T_abc, T_NA, <<>>}
Units == {T_hours, T_days, T_minutes, <<"d", "a", "y">>, T_ago}

OneToken == Magnitudes \cup BadMagnitudes
TwoTokens == {m \o <<SP>> \o u : m \in Magnitudes \cup BadMagnitudes, u \in Units}
ThreeTokens == {t \o <<SP>> \o T_ago : t \in TwoTokens}

AgeInputs == {PyStr(s) : s \in OneToken \cup TwoTokens \cup ThreeTokens}
CommentInputs ==
    {PyStr(s) : s \in Magnitudes \cup BadMagnitudes \cup {T_discuss, T_fortytwo}}
        \cup {PyInt(0)}

Header == [kind |-> "header",
           fields |-> <<"comments", "rank", "score", "age", "title_length">>]

RunIdle ==
    /\ pc = "idle"
    /\ page = 1
    /\ connection_attempts = 0
    /\ loads = 0
    /\ result = PyNone
    /\ html = <<>>
    /\ x = 0
    /\ output_list = <<>>
    /\ raised = ""
    /\ w = 0
    /\ sink = <<Header>>
    /\ sinkPage = <<0>>
    /\ attempted = {}
    /\ skipped = {}

InitParsers ==
    /\ \/ call = "parse_age" /\ arg \in AgeInputs
       \/ call = "parse_comments" /\ arg \in CommentInputs
    /\ ret = Pending
    /\ RunIdle

CallParseAge ==
    /\ call = "parse_age"
    /\ ret = Pending
    /\ ret' = parse_age(arg)
    /\ UNCHANGED <<call, arg>>
    /\ UNCHANGED runVars

CallParseComments ==
    /\ call = "parse_comments"
    /\ ret = Pending
    /\ ret' = parse_comments(arg)
    /\ UNCHANGED <<call, arg>>
    /\ UNCHANGED runVars

NextParsers == CallParseAge \/ CallParseComments

SpecParsers == InitParsers /\ [][NextParsers]_vars

(***************************************************************************)
(* Vocabulary of the claims about the parsers, stated on the text itself   *)
(* and not through float().                                                *)
(***************************************************************************)
Sentinel == PyStr(T_NA)
IsNumber(v) == v.t \in {"int", "float"}
\* v is the number n / d
NumIs(v, n, d) ==
    \/ v.t = "int" /\ v.v * d = n
    \/ v.t = "float" /\ v.n * d = n * v.d
Tokens(v) == split(v.s, SP)
IsMagnitude(s) == \E n \in 0..(MaxMagnitude + 1) : s = Dec(n)
MagnitudeOf(s) == CHOOSE n \in 0..(MaxMagnitude + 1) : s = Dec(n)

AgeReturned == call = "parse_age" /\ ret # Pending
CommentsReturned == call = "parse_comments" /\ ret # Pending

\* C1: parse_comments gives 0 for the placeholder "discuss", the numeric
\* count for numeric text, and the sentinel "NA" only for text that is
\* neither the placeholder nor numeric.
C1_CommentsContract ==
    (CommentsReturned /\ arg.t = "str") =>
        /\ ret.k = "return"
        /\ arg.s = T_discuss => NumIs(ret.v, 0, 1)
        /\ IsMagnitude(arg.s) => NumIs(ret.v, MagnitudeOf(arg.s), 1)
        /\ ret.v = Sentinel => (arg.s # T_discuss /\ ~IsMagnitude(arg.s))

\* C2: for every two-token age text parse_age returns without raising: the
\* sentinel "NA" when the magnitude is not numeric, whatever the unit;
\* otherwise magnitude * 24 for "days", magnitude / 60 for "minutes" and the
\* magnitude unchanged for any other unit.
C2_TwoTokenAge ==
    (AgeReturned /\ Len(Tokens(arg)) = 2) =>
        LET m == Tokens(arg)[1]
            u == Tokens(arg)[2]
        IN  /\ ret.k = "return"
            /\ ~IsMagnitude(m) => ret.v = Sentinel
            /\ IsMagnitude(m) =>
                   /\ IsNumber(ret.v)
                   /\ u = T_days => NumIs(ret.v, MagnitudeOf(m) * 24, 1)
                   /\ u = T_minutes => NumIs(ret.v, MagnitudeOf(m), 60)
                   /\ u \notin {T_days, T_minutes} => NumIs(ret.v, MagnitudeOf(m), 1)

\* C3: for every single-token age text parse_age does not crash: the
\* missing unit counts as hours, so a numeric magnitude is returned
\* unchanged and a non-numeric one gives the sentinel.
C3_SingleTokenAge ==
    (AgeReturned /\ Len(Tokens(arg)) = 1) =>
        LET m == Tokens(arg)[1]
        IN  /\ ret.k = "return"
            /\ IsMagnitude(m) => NumIs(ret.v, MagnitudeOf(m), 1)
            /\ ~IsMagnitude(m) => ret.v = Sentinel

(***************************************************************************)
(* The parsed document.  A page is the sequence, in document order, of its *)
(* item groups; a group holds what the page carries for one listing:       *)
(*   id        the id attribute of its tr.athing row (PyNone: no id)       *)
(*   span      the string of the row's first span, the rank marker         *)
(*   storylink the string of the row's class "storylink" element           *)
(*   age       the link whose href is item?id=<href>, with its string      *)
(*   score     the element whose id is score_<id>, with its string         *)
(*   subtext   the td.subtext row: the strings of its links, in order      *)
(* PyNone stands for an element the page does not have.                    *)
(***************************************************************************)
AgeOptions == {"absent", "hours", "days", "minutes", "today"}
SubOptions == {"absent", "discuss", "count"}

BaseKind == [rank |-> "ok", title |-> "ok", id |-> TRUE,
             age |-> "hours", score |-> TRUE, sub |-> "count"]
OptionalKinds ==
    {[BaseKind EXCEPT !.age = a, !.score = b, !.sub = c] :
        a \in AgeOptions, b \in BOOLEAN, c \in SubOptions}
DefectKinds ==
    {[BaseKind EXCEPT !.rank = r] : r \in {"absent", "bad", "low"}}
        \cup {[BaseKind EXCEPT !.title = "absent"], [BaseKind EXCEPT !.id = FALSE]}
ItemKinds == OptionalKinds \cup DefectKinds

AgeText(a) ==
    IF a = "hours" THEN <<"3", SP>> \o T_hours \o <<SP>> \o T_ago
    ELSE IF a = "days" THEN <<"2", SP>> \o T_days \o <<SP>> \o T_ago
    ELSE IF a = "minutes" THEN <<"4", "5", SP>> \o T_minutes \o <<SP>> \o T_ago
    ELSE T_today

MkItem(pos, kind) ==
    [id |-> IF kind.id THEN PyInt(pos) ELSE PyNone,
     span |-> IF kind.rank = "ok" THEN PyStr(Dec(pos) \o <<DOT>>)
              ELSE IF kind.rank = "low" THEN PyStr(<<"0", DOT>>)
              ELSE IF kind.rank = "bad" THEN PyStr(T_abc)
              ELSE PyNone,
     storylink |-> IF kind.title = "ok" THEN PyStr(Repeat(<<"t">>, pos + 2)) ELSE PyNone,
     age |-> IF kind.age = "absent" THEN PyNone
             ELSE [href |-> PyInt(pos), string |-> PyStr(AgeText(kind.age))],
     score |-> IF kind.score
               THEN [id |-> PyInt(pos), string |-> PyStr(Dec(6 + pos) \o <<SP>> \o T_points)]
               ELSE PyNone,
     subtext |-> IF kind.sub = "absent" THEN PyNone
                 ELSE [links |-> <<PyStr(T_hide),
                                   IF kind.sub = "discuss" THEN PyStr(T_discuss)
                                   ELSE PyStr(Dec(40 + pos) \o <<NBSP>> \o T_comments)>>]]

Document(kinds) == [i \in 1..Len(kinds) |-> MkItem(i, kinds[i])]
KindSeqs(S, n) == UNION {[1..m -> S] : m \in 0..n}
ExtractDocs == {Document(ks) : ks \in KindSeqs(ItemKinds, MaxItems)}

(***************************************************************************)
(* parse_html                                                              *)
(***************************************************************************)
\* soup.find_all('tr', class_='athing')
entry_tr(h) == h

\* soup.find_all('td', class_='subtext'): the rows the page has, in order
RECURSIVE entry_td(_)
entry_td(h) ==
    IF h = <<>> THEN <<>>
    ELSE (IF Head(h).subtext = PyNone THEN <<>> ELSE <<Head(h).subtext>>)
             \o entry_td(Tail(h))

\* soup.find(href=f'item?id={article_id}'): first match in document order
find_href(h, article_id) ==
    LET hits == {i \in 1..Len(h) : h[i].age # PyNone /\ h[i].age.href = article_id}
    IN  IF hits = {} THEN PyNone
        ELSE h[CHOOSE i \in hits : \A j \in hits : i <= j].age

\* soup.find(id=f'score_{article_id}')
find_score(h, article_id) ==
    LET hits == {i \in 1..Len(h) : h[i].score # PyNone /\ h[i].score.id = article_id}
    IN  IF hits = {} THEN PyNone
        ELSE h[CHOOSE i \in hits : \A j \in hits : i <= j].score

\* One pass of the for loop's body, for index x (0-based): the record that
\* is appended, or the exception that leaves parse_html.
ExtractItem(h, i) ==
    LET tr == entry_tr(h)[i + 1]
        article_id == tr.id
        ageNode == find_href(h, article_id)
        scoreNode == find_score(h, article_id)
        \* except Exception: score = '0 points'
        score == IF scoreNode = PyNone THEN PyStr(<<"0", SP>> \o T_points)
                 ELSE scoreNode.string
        tds == entry_td(h)
        \* except Exception: comments = 0
        comments ==
            IF i + 1 > Len(tds) THEN PyInt(0)
            ELSE IF tds[i + 1].links = <<>> THEN PyInt(0)
            ELSE LET last == tds[i + 1].links[Len(tds[i + 1].links)]
                 IN  IF last.t # "str" THEN PyInt(0)
                     ELSE PyStr(split(last.s, NBSP)[1])
        e_comments == parse_comments(comments)
        e_rank == IF tr.span = PyNone THEN Raise("AttributeError") ELSE float(tr.span)
        e_score == IF score.t # "str" THEN Raise("AttributeError")
                   ELSE int(PyStr(split(score.s, SP)[1]))
        e_age == parse_age(ageNode.string)
        e_title == IF tr.storylink = PyNone THEN Raise("AttributeError")
                   ELSE IF tr.storylink.t # "str" THEN Raise("TypeError")
                   ELSE Return(PyInt(Len(tr.storylink.s)))
    IN  \* None.string: AttributeError, which "except IndexError" lets through
        IF ageNode = PyNone THEN Raise("AttributeError")
        \* the dict display evaluates its values in order
        ELSE IF e_comments.k = "raise" THEN e_comments
        ELSE IF e_rank.k = "raise" THEN e_rank
        ELSE IF e_score.k = "raise" THEN e_score
        ELSE IF e_age.k = "raise" THEN e_age
        ELSE IF e_title.k = "raise" THEN e_title
        ELSE Return([kind |-> "row",
                     comments |-> e_comments.v,
                     rank |-> e_rank.v,
                     score |-> e_score.v,
                     age |-> e_age.v,
                     title_length |-> e_title.v])

\* ParseItem with output_list.insert(0, ...) in place of append
ParseItem_Prepend ==
    /\ pc = "parse"
    /\ x < Len(entry_tr(html))
    /\ ExtractItem(html, x).k = "return"
    /\ output_list' = <<ExtractItem(html, x).v>> \o output_list
    /\ x' = x + 1
    /\ UNCHANGED <<pc, page, connection_attempts, loads, result, html, raised,
                   w, sink, sinkPage, attempted, skipped>>
    /\ UNCHANGED parserVars

\* for x in range(0, len(entry_tr)): one item extracted and appended
ParseItem ==
    /\ pc = "parse"
    /\ x < Len(entry_tr(html))
    /\ ExtractItem(html, x).k = "return"
    /\ output_list' = Append(output_list, ExtractItem(html, x).v)
    /\ x' = x + 1
    /\ UNCHANGED <<pc, page, connection_attempts, loads, result, html, raised,
                   w, sink, sinkPage, attempted, skipped>>
    /\ UNCHANGED parserVars

\* an exception in the loop body: nothing between here and the top of the
\* script catches it, so parse_html, run_process and the script end
ParseRaise ==
    /\ pc = "parse"
    /\ x < Len(entry_tr(html))
    /\ ExtractItem(html, x).k = "raise"
    /\ pc' = "crashed"
    /\ raised' = ExtractItem(html, x).exc
    /\ UNCHANGED <<page, connection_attempts, loads, result, html, x, output_list,
                   w, sink, sinkPage, attempted, skipped>>
    /\ UNCHANGED parserVars

\* return output_list; run_process goes on to write_to_file
ParseReturn ==
    /\ pc = "parse"
    /\ x = Len(entry_tr(html))
    /\ pc' = "write"
    /\ w' = 0
    /\ UNCHANGED <<page, connection_attempts, loads, result, html, x, output_list,
                   raised, sink, sinkPage, attempted, skipped>>
    /\ UNCHANGED parserVars

(***************************************************************************)
(* Specification of the record extractor: parse_html on one page drawn     *)
(* from ExtractDocs.                                                       *)
(***************************************************************************)
InitExtract ==
    /\ call = "none" /\ arg = PyNone /\ ret = Pending
    /\ pc = "parse"
    /\ page = 1
    /\ connection_attempts = 0
    /\ loads = 0
    /\ result = PyNone
    /\ html \in ExtractDocs
    /\ x = 0
    /\ output_list = <<>>
    /\ raised = ""
    /\ w = 0
    /\ sink = <<Header>>
    /\ sinkPage = <<0>>
    /\ attempted = {1}
    /\ skipped = {}

NextExtract == ParseItem \/ ParseRaise \/ ParseReturn

SpecExtract == InitExtract /\ [][NextExtract]_vars

(***************************************************************************)
(* Vocabulary of the claims about the extractor, read off the page and not *)
(* through ExtractItem.                                                    *)
(***************************************************************************)
IsRankText(v) == v # PyNone /\ \E n \in 0..Len(html) : v.s = Dec(n) \o <<DOT>>
RankNum(v) == CHOOSE n \in 0..Len(html) : v.s = Dec(n) \o <<DOT>>

IsAgeText(v) ==
    /\ Len(Tokens(v)) >= 2
    /\ IsMagnitude(Tokens(v)[1])
\* v's age in hours is n / d
AgeIs(rec, v) ==
    LET m == MagnitudeOf(Tokens(v)[1])
        u == Tokens(v)[2]
    IN  IF u = T_days THEN NumIs(rec, m * 24, 1)
        ELSE IF u = T_minutes THEN NumIs(rec, m, 60)
        ELSE NumIs(rec, m, 1)

ScoreIs(rec, g) ==
    IF g.score = PyNone THEN NumIs(rec, 0, 1)
    ELSE \E n \in 0..(6 + Len(html)) :
             /\ g.score.string.s = Dec(n) \o <<SP>> \o T_points
             /\ NumIs(rec, n, 1)

RequiredOk(g) == g.id # PyNone /\ IsRankText(g.span) /\ g.storylink # PyNone
MissingRequired(g) == ~IsRankText(g.span) \/ g.storylink = PyNone
AgeOk(g) == g.age # PyNone /\ IsAgeText(g.age.string)
WellFormedItem(g) == RequiredOk(g) /\ AgeOk(g)

WellFormedPage ==
    /\ \A i \in 1..Len(html) : WellFormedItem(html[i])
    /\ \A i \in 1..(Len(html) - 1) : RankNum(html[i].span) < RankNum(html[i + 1].span)

\* record r carries the rank and the title length of item node g
FromNode(r, g) ==
    /\ NumIs(r.rank, RankNum(g.span), 1)
    /\ r.title_length = PyInt(Len(g.storylink.s))

\* the comment text of g's own metadata row
OwnCommentText(g) ==
    PyStr(split(g.subtext.links[Len(g.subtext.links)].s, NBSP)[1])

GoodItems == SelectSeq(html, WellFormedItem)

\* C4: on a page of N well-formed item nodes (identifier, numeric rank
\* marker, title, age link with "<number> <unit> ..." text, ranks ascending)
\* parse_html returns exactly N records, the i-th built from the i-th node
\* (its rank, title length, score and age), ranks strictly increasing.
C4_WellFormedPage ==
    (pc \in {"parse", "write", "crashed"} /\ WellFormedPage) =>
        /\ pc # "crashed"
        /\ Len(output_list) = x
        /\ pc = "write" => Len(output_list) = Len(html)
        /\ \A i \in 1..Len(output_list) :
               /\ FromNode(output_list[i], html[i])
               /\ ScoreIs(output_list[i].score, html[i])
               /\ AgeIs(output_list[i].age, html[i].age.string)
        /\ \A i \in 1..(Len(output_list) - 1) :
               \E n \in 0..Len(html) :
                   /\ NumIs(output_list[i].rank, n, 1)
                   /\ \E m \in (n + 1)..Len(html) : NumIs(output_list[i + 1].rank, m, 1)

C4_Witness ==
    /\ pc = "write"
    /\ WellFormedPage
    /\ Len(html) >= 2
    /\ Len(output_list) = Len(html)
    /\ html[1].score = PyNone
    /\ html[2].subtext = PyNone

\* C5: when the lookup of an optional field (age, score, comments) fails
\* because the node is absent, extraction is never aborted: the item yields
\* a record with age "NA", score 0 or comments 0 for the absent field, and
\* every other item of the page yields its record too.
C5_OptionalDegrade ==
    (\A i \in 1..Len(html) :
         RequiredOk(html[i]) /\ (html[i].age = PyNone \/ AgeOk(html[i]))) =>
        /\ pc # "crashed"
        /\ pc = "write" =>
               /\ Len(output_list) = Len(html)
               /\ \A i \in 1..Len(html) :
                      /\ html[i].age = PyNone => output_list[i].age = Sentinel
                      /\ html[i].score = PyNone => NumIs(output_list[i].score, 0, 1)
                      /\ html[i].subtext = PyNone => NumIs(output_list[i].comments, 0, 1)

\* C6: an item whose metadata (subtext) row is absent, at any position, gets
\* comments 0, and every other item's comments value is taken from that
\* item's own metadata row.
C6_AbsentRowZero ==
    (pc = "write" /\ Len(output_list) = Len(html)) =>
        \A i \in 1..Len(html) :
            IF html[i].subtext = PyNone
            THEN NumIs(output_list[i].comments, 0, 1)
            ELSE output_list[i].comments = parse_comments(OwnCommentText(html[i])).v

\* C9: an item missing a required field (no rank marker, a non-numeric rank
\* or no title) is dropped alone: parse_html still returns the records of
\* all other items in order.
C9_DropItemOnly ==
    (/\ \A i \in 1..Len(html) :
            html[i].id # PyNone /\ AgeOk(html[i])
     /\ \E i \in 1..Len(html) : MissingRequired(html[i])) =>
        /\ pc # "crashed"
        /\ pc = "write" =>
               /\ Len(output_list) = Len(GoodItems)
               /\ \A i \in 1..Len(output_list) : FromNode(output_list[i], GoodItems[i])

(***************************************************************************)
(* The run: __main__, run_process, connect_to_base, write_to_file.         *)
(***************************************************************************)
StartPage == 1
max_pages == 5
MaxAttempts == 3

PyBool(b) == [t |-> "bool", b |-> b]

RunKinds == {BaseKind, [BaseKind EXCEPT !.rank = "absent"]}
RunDocs == {Document(ks) : ks \in KindSeqs(RunKinds, MaxRunItems)}

Init ==
    /\ call = "none" /\ arg = PyNone /\ ret = Pending
    /\ pc = "main"
    /\ page = StartPage
    /\ connection_attempts = 0
    /\ loads = 0
    /\ result = PyNone
    /\ html = <<>>
    /\ x = 0
    /\ output_list = <<>>
    /\ raised = ""
    /\ w = 0
    /\ sink = <<Header>>
    /\ sinkPage = <<0>>
    /\ attempted = {}
    /\ skipped = {}

\* while page <= max_pages: run_process(page, ...) calls connect_to_base
MainEnter ==
    /\ pc = "main"
    /\ page <= max_pages
    /\ pc' = "connect"
    /\ connection_attempts' = 0
    /\ loads' = 0
    /\ attempted' = attempted \cup {page}
    /\ UNCHANGED <<page, result, html, x, output_list, raised, w, sink, sinkPage, skipped>>
    /\ UNCHANGED parserVars

\* the loop ends: browser.quit()
MainExit ==
    /\ pc = "main"
    /\ ~(page <= max_pages)
    /\ pc' = "done"
    /\ UNCHANGED <<page, connection_attempts, loads, result, html, x, output_list,
                   raised, w, sink, sinkPage, attempted, skipped>>
    /\ UNCHANGED parserVars

\* the while condition with <= in place of <
CanRetry_OffByOne == connection_attempts <= MaxAttempts

\* while connection_attempts < 3
CanRetry == connection_attempts < MaxAttempts

\* connect_to_base: browser.get and the wait for 'hnmain' succeed: return True
ConnectSucceed ==
    /\ pc = "connect"
    /\ CanRetry
    /\ loads' = loads + 1
    /\ result' = PyBool(TRUE)
    /\ pc' = "connected"
    /\ UNCHANGED <<page, connection_attempts, html, x, output_list, raised, w,
                   sink, sinkPage, attempted, skipped>>
    /\ UNCHANGED parserVars

\* connect_to_base: the load or the wait raises: connection_attempts += 1
ConnectFail ==
    /\ pc = "connect"
    /\ CanRetry
    /\ loads' = loads + 1
    /\ connection_attempts' = connection_attempts + 1
    /\ UNCHANGED <<pc, page, result, html, x, output_list, raised, w,
                   sink, sinkPage, attempted, skipped>>
    /\ UNCHANGED parserVars

\* connect_to_base: the while condition fails: return False
ConnectGiveUp ==
    /\ pc = "connect"
    /\ ~CanRetry
    /\ result' = PyBool(FALSE)
    /\ pc' = "connected"
    /\ UNCHANGED <<page, connection_attempts, loads, html, x, output_list, raised,
                   w, sink, sinkPage, attempted, skipped>>
    /\ UNCHANGED parserVars

\* run_process, connected: sleep(2), html = browser.page_source, parse_html(html)
RunConnected ==
    /\ pc = "connected"
    /\ result = PyBool(TRUE)
    /\ html' \in RunDocs
    /\ pc' = "parse"
    /\ x' = 0
    /\ output_list' = <<>>
    /\ result' = PyNone
    /\ connection_attempts' = 0
    /\ loads' = 0
    /\ UNCHANGED <<page, raised, w, sink, sinkPage, attempted, skipped>>
    /\ UNCHANGED parserVars

\* RunNotConnected with the run given up after a page that cannot be fetched
RunNotConnected_Abort ==
    /\ pc = "connected"
    /\ result = PyBool(FALSE)
    /\ pc' = "done"
    /\ skipped' = skipped \cup {page}
    /\ result' = PyNone
    /\ connection_attempts' = 0
    /\ loads' = 0
    /\ UNCHANGED <<page, html, x, output_list, raised, w, sink, sinkPage, attempted>>
    /\ UNCHANGED parserVars

\* run_process, not connected: print the error and return; page = page + 1
RunNotConnected ==
    /\ pc = "connected"
    /\ result = PyBool(FALSE)
    /\ page' = page + 1
    /\ pc' = "main"
    /\ skipped' = skipped \cup {page}
    /\ result' = PyNone
    /\ connection_attempts' = 0
    /\ loads' = 0
    /\ UNCHANGED <<html, x, output_list, raised, w, sink, sinkPage, attempted>>
    /\ UNCHANGED parserVars

\* WriteRow that moves on to the next page after the first row
WriteRow_EarlyReturn ==
    /\ pc = "write"
    /\ w < Len(output_list)
    /\ sink' = Append(sink, output_list[w + 1])
    /\ sinkPage' = Append(sinkPage, page)
    /\ page' = page + 1
    /\ pc' = "main"
    /\ html' = <<>>
    /\ x' = 0
    /\ output_list' = <<>>
    /\ w' = 0
    /\ UNCHANGED <<connection_attempts, loads, result, raised, attempted, skipped>>
    /\ UNCHANGED parserVars

\* write_to_file: writer.writerow(row) for the next row of output_list
WriteRow ==
    /\ pc = "write"
    /\ w < Len(output_list)
    /\ sink' = Append(sink, output_list[w + 1])
    /\ sinkPage' = Append(sinkPage, page)
    /\ w' = w + 1
    /\ UNCHANGED <<pc, page, connection_attempts, loads, result, html, x,
                   output_list, raised, attempted, skipped>>
    /\ UNCHANGED parserVars

\* write_to_file and run_process return; page = page + 1
WriteDone ==
    /\ pc = "write"
    /\ w = Len(output_list)
    /\ page' = page + 1
    /\ pc' = "main"
    /\ html' = <<>>
    /\ x' = 0
    /\ output_list' = <<>>
    /\ w' = 0
    /\ UNCHANGED <<connection_attempts, loads, result, raised, sink, sinkPage,
                   attempted, skipped>>
    /\ UNCHANGED parserVars

Next ==
    \/ MainEnter \/ MainExit
    \/ ConnectSucceed \/ ConnectFail \/ ConnectGiveUp
    \/ RunConnected \/ RunNotConnected
    \/ ParseItem \/ ParseRaise \/ ParseReturn
    \/ WriteRow \/ WriteDone

Spec == Init /\ [][Next]_vars

\* One step of connect_to_base
Connect == ConnectSucceed \/ ConnectFail \/ ConnectGiveUp

\* browser.get and the 5 second WebDriverWait each return or raise, so a
\* call of connect_to_base that can take a step takes it.
FairSpec == Spec /\ WF_vars(Connect)

(***************************************************************************)
(* Claims about the run.                                                   *)
(***************************************************************************)
ReturnedTrue == pc = "connected" /\ result = PyBool(TRUE)
ReturnedFalse == pc = "connected" /\ result = PyBool(FALSE)
NoRowOfPage(p) == \A i \in 1..Len(sinkPage) : sinkPage[i] # p

\* C7: connect_to_base always returns, after at most 3 load attempts: every
\* step of it is a load attempt or its return, a successful attempt returns
\* True at once, False is returned exactly when 3 attempts have failed, and
\* no 4th attempt is made.
C7_BoundedRetry ==
    /\ (pc = "connect") ~> (pc = "connected")
    /\ [](loads <= 3 /\ connection_attempts <= loads)
    /\ [](ReturnedTrue => (connection_attempts < 3 /\ loads = connection_attempts + 1))
    /\ [](ReturnedFalse => (connection_attempts = 3 /\ loads = 3))
    /\ [](pc = "connected" => (result = PyBool(FALSE) <=> connection_attempts = 3))
    /\ [][pc = "connect" =>
             \/ pc' = "connected"
             \/ /\ pc' = "connect"
                /\ loads' = loads + 1
                /\ connection_attempts' = connection_attempts + 1]_vars
    /\ [][(pc = "connect" /\ loads' = loads + 1
              /\ connection_attempts' = connection_attempts) =>
             (pc' = "connected" /\ result' = PyBool(TRUE))]_vars

C7_Witness == ReturnedTrue /\ loads = 3 /\ skipped # {}

\* C8: when all 3 fetch attempts of a page fail, no record of that page is
\* written (the sink is unchanged) and the loop goes on with the next page
\* number, so a fetch failure keeps no page from StartPage to max_pages from
\* being attempted.
C8_SkipFailedPage ==
    /\ [](ReturnedFalse => loads = 3)
    /\ [][ReturnedFalse => (sink' = sink /\ page' = page + 1 /\ pc' = "main")]_vars
    /\ [](\A p \in skipped : NoRowOfPage(p))
    /\ [](skipped \subseteq attempted)
    /\ [](pc = "main" => attempted = StartPage..(page - 1))
    /\ [][(pc = "main" /\ page <= max_pages) =>
             (pc' = "connect" /\ page' = page /\ page \in attempted')]_vars
    /\ [](pc = "done" => attempted = StartPage..max_pages)

C8_Witness ==
    /\ pc = "done"
    /\ 1 \in skipped
    /\ ~NoRowOfPage(2)
    /\ attempted = StartPage..max_pages

\* C10: pages are processed one after the other in ascending order: the
\* fetch of a page precedes its extraction, rows reach the sink only once
\* every item of the page is extracted, the page number moves on only when
\* all rows of the page are in the sink (or the fetch failed), and a page
\* whose extraction fails part-way contributes no row.
C10_Sequential ==
    /\ [](\A i, j \in 1..Len(sinkPage) : i < j => sinkPage[i] <= sinkPage[j])
    /\ [](Len(sinkPage) = Len(sink))
    /\ [](pc \in {"connect", "connected", "parse", "crashed"} =>
              \A i \in 1..Len(sinkPage) : sinkPage[i] < page)
    /\ [](\A i \in 1..Len(sinkPage) : sinkPage[i] <= page)
    /\ [][sink' # sink =>
             /\ pc = "write"
             /\ Len(output_list) = Len(entry_tr(html))
             /\ w < Len(output_list)
             /\ sink' = Append(sink, output_list[w + 1])
             /\ sinkPage' = Append(sinkPage, page)
             /\ page' = page]_vars
    /\ [][page' # page =>
             /\ page' = page + 1
             /\ pc' = "main"
             /\ \/ ReturnedFalse
                \/ /\ pc = "write"
                   /\ w = Len(output_list)
                   /\ SubSeq(sink, Len(sink) - w + 1, Len(sink)) = output_list
                   /\ \A i \in 1..Len(sink) :
                          sinkPage[i] = page <=> i > Len(sink) - w]_vars
    /\ [][loads' > loads => (pc = "connect" /\ page' = page /\ page \in attempted)]_vars
    /\ [][(pc' = "parse" /\ pc # "parse") => ReturnedTrue]_vars
    /\ [][(pc' = "write" /\ pc # "write") =>
             (pc = "parse" /\ Len(output_list) = Len(entry_tr(html)))]_vars

C10_Witness ==
    /\ pc = "crashed"
    /\ x >= 1
    /\ page >= 2
    /\ ~NoRowOfPage(1)

=============================================================================
